---- MODULE Spec2Model ----
(***************************************************************************)
(* Model of the c-- expression front end: the tokeniser over a read-only   *)
(* buffer (robuffer.rs, tokeniser.rs), the shunting-yard reducer           *)
(* (expr_parser.rs), the two semantic passes (sema.rs) and the entry point *)
(* (main.rs).                                                              *)
(*                                                                         *)
(* Bytes are one-character strings, a buffer is a sequence of them.        *)
(* A Token is a record: kind, the payload of Num (num), of Ident (name)    *)
(* and of Invalid (byte), and its line and column.                         *)
(***************************************************************************)
EXTENDS Integers, Sequences, FiniteSets, TLC

VARIABLES
    contents,   \* ROBuffer.contents: the input bytes
    offset,     \* ROBuffer.offset
    line,       \* Tokeniser.line
    column,     \* Tokeniser.column
    rewound0,   \* TRUE once rewind() was called at offset 0 (the panic)
    exprs,      \* collect(): the local vector of tokens pushed so far
    tpc,        \* collect(): "collect" (in the loop), "Ok" or "Err" (returned);
                \* "calls" while tokenise() is called directly
    diag,       \* collect(): the Invalid token it reported, <<>> when none
    produced,   \* history: every token tokenise() returned, in call order
    callStart,  \* history: ROBuffer.offset at the start of the last tokenise()
    expr,       \* the token sequence handed to sema_infix / to_rpn / sema_rpn
    pc,         \* which function is applied next
    infixRes,   \* what sema_infix(expr) returned
    directRes,  \* what sema_rpn(expr) returned
    idx,        \* to_rpn: number of tokens of expr consumed by the for loop
    ret,        \* to_rpn: the output vector ret
    opstack,    \* to_rpn: the operator stack
    rpnRes,     \* what sema_rpn(to_rpn(expr)) returned
    stages,     \* main: the stages the entry point has run, in order
    ir          \* main: the lines code_dump wrote to compile.ir

vars == <<contents, offset, line, column, rewound0, exprs, tpc, diag, produced,
          callStart, expr, pc, infixRes, directRes, idx, ret, opstack, rpnRes,
          stages, ir>>

tokVars == <<contents, offset, line, column, rewound0, exprs, tpc, diag,
             produced, callStart>>

redVars == <<expr, pc, infixRes, directRes, idx, ret, opstack, rpnRes>>

(***************************************************************************)
(* Bounds of the model.                                                    *)
(***************************************************************************)
\* longest input text drawn over the whole byte alphabet
MaxText == 4

\* longest token sequence drawn over all thirteen token kinds
MaxLen == 3

(***************************************************************************)
(* utils.rs                                                                *)
(***************************************************************************)
Digits == {"0", "1", "2", "3", "4", "5", "6", "7", "8", "9"}

Lower == {"a", "b", "c", "d", "e", "f", "g", "h", "i", "j", "k", "l", "m",
          "n", "o", "p", "q", "r", "s", "t", "u", "v", "w", "x", "y", "z"}

Upper == {"A", "B", "C", "D", "E", "F", "G", "H", "I", "J", "K", "L", "M",
          "N", "O", "P", "Q", "R", "S", "T", "U", "V", "W", "X", "Y", "Z"}

is_digit(c) == c \in Digits

is_alnum(c) == is_digit(c) \/ c \in Lower \/ c \in Upper

\* ch - b'0'
DigitVal(c) ==
    CASE c = "0" -> 0 [] c = "1" -> 1 [] c = "2" -> 2 [] c = "3" -> 3
      [] c = "4" -> 4 [] c = "5" -> 5 [] c = "6" -> 6 [] c = "7" -> 7
      [] c = "8" -> 8 [] c = "9" -> 9

(***************************************************************************)
(* tokeniser.rs: Token                                                     *)
(***************************************************************************)
\* Token::new(kind, col, ln), the kind given with its payload
Token(kind, num, name, byte, col, ln) ==
    [kind |-> kind, num |-> num, name |-> name, byte |-> byte,
     line |-> ln, col |-> col]

\* a kind that carries no payload
Plain(kind, col, ln) == Token(kind, 0, <<>>, "", col, ln)

\* Vec::pop: the vector without its last element
PopTop(v) == SubSeq(v, 1, Len(v) - 1)

is_operand(t) == t.kind \in {"Num", "Ident"}

is_paren(t) == t.kind \in {"LPar", "RPar"}

is_operator(t) ==
    t.kind \in {"Add", "Sub", "Mul", "Div", "And", "Mod", "Xor", "Or", "Assign"}

\* Token::precedence (the other kinds are unreachable!() in the source)
precedence(t) ==
    CASE t.kind = "Assign" -> -1
      [] t.kind \in {"Num", "Ident"} -> 0
      [] t.kind = "Or" -> 1
      [] t.kind = "Xor" -> 2
      [] t.kind = "And" -> 3
      [] t.kind \in {"Sub", "Add"} -> 5
      [] t.kind \in {"Div", "Mul", "Mod"} -> 6

(***************************************************************************)
(* robuffer.rs                                                             *)
(***************************************************************************)
\* ROBuffer::next: None at the end, else the byte at offset, offset advanced
BufNext(buf, off) ==
    IF Len(buf) <= off
    THEN [some |-> FALSE, ch |-> "", offset |-> off]
    ELSE [some |-> TRUE, ch |-> buf[off + 1], offset |-> off + 1]

\* ROBuffer::rewind on the tokeniser state st: the panic at offset 0 is
\* recorded in st.panic and leaves the offset alone
BufRewind(st) ==
    IF st.offset = 0
    THEN [st EXCEPT !.panic = TRUE]
    ELSE [st EXCEPT !.offset = @ - 1]

(***************************************************************************)
(* tokeniser.rs: Tokeniser.  st is the record of the Tokeniser's fields:   *)
(* offset (of buf), line, column, and panic.                               *)
(***************************************************************************)
RECURSIVE GetNumLoop_nodec(_, _, _)
\* the loop of get_num rewinding without taking the column back
GetNumLoop_nodec(buf, st, n) ==
    LET r == BufNext(buf, st.offset) IN
    IF ~r.some THEN [st |-> st, n |-> n]
    ELSE IF ~is_digit(r.ch)
    THEN [st |-> BufRewind([st EXCEPT !.offset = r.offset]), n |-> n]
    ELSE GetNumLoop_nodec(buf, [st EXCEPT !.offset = r.offset,
                                         !.column = @ + 1],
                          n * 10 + DigitVal(r.ch))

RECURSIVE GetNumLoop(_, _, _)
\* the loop of get_num, n the accumulator
GetNumLoop(buf, st, n) ==
    LET r == BufNext(buf, st.offset) IN
    IF ~r.some THEN [st |-> st, n |-> n]
    ELSE IF ~is_digit(r.ch)
    THEN [st |-> BufRewind([st EXCEPT !.offset = r.offset, !.column = @ - 1]),
          n |-> n]
    ELSE GetNumLoop(buf, [st EXCEPT !.offset = r.offset, !.column = @ + 1],
                    n * 10 + DigitVal(r.ch))

get_num(buf, st) ==
    LET r == GetNumLoop(buf, st, 0) IN
    [tok |-> Token("Num", r.n, <<>>, "", st.column, st.line), st |-> r.st]

RECURSIVE GetIdentLoop_eofrewind(_, _, _)
\* the loop of get_ident rewinding at the end of the input as well
GetIdentLoop_eofrewind(buf, st, bvec) ==
    LET r == BufNext(buf, st.offset) IN
    IF ~r.some THEN [st |-> BufRewind(st), bvec |-> bvec]
    ELSE IF ~is_alnum(r.ch)
    THEN [st |-> BufRewind([st EXCEPT !.offset = r.offset, !.column = @ - 1]),
          bvec |-> bvec]
    ELSE GetIdentLoop_eofrewind(buf, [st EXCEPT !.offset = r.offset,
                                               !.column = @ + 1],
                                Append(bvec, r.ch))

RECURSIVE GetIdentLoop(_, _, _)
\* the loop of get_ident, bvec the bytes pushed so far
GetIdentLoop(buf, st, bvec) ==
    LET r == BufNext(buf, st.offset) IN
    IF ~r.some THEN [st |-> st, bvec |-> bvec]
    ELSE IF ~is_alnum(r.ch)
    THEN [st |-> BufRewind([st EXCEPT !.offset = r.offset, !.column = @ - 1]),
          bvec |-> bvec]
    ELSE GetIdentLoop(buf, [st EXCEPT !.offset = r.offset, !.column = @ + 1],
                      Append(bvec, r.ch))

get_ident(buf, st) ==
    LET r == GetIdentLoop(buf, st, <<>>) IN
    [tok |-> Token("Ident", 0, r.bvec, "", st.column, st.line), st |-> r.st]

\* the match of tokenise without its arm for ')'
SingleKind_norpar(ch) ==
    CASE ch = "=" -> "Assign"
      [] ch = "+" -> "Add"
      [] ch = "-" -> "Sub"
      [] ch = "*" -> "Mul"
      [] ch = "/" -> "Div"
      [] ch = "(" -> "LPar"
      [] ch = "%" -> "Mod"
      [] ch = "|" -> "Or"
      [] ch = "^" -> "Xor"
      [] ch = "&" -> "And"
      [] OTHER -> "Invalid"

\* the single-byte arms of the match in tokenise
SingleKind(ch) ==
    CASE ch = "=" -> "Assign"
      [] ch = "+" -> "Add"
      [] ch = "-" -> "Sub"
      [] ch = "*" -> "Mul"
      [] ch = "/" -> "Div"
      [] ch = "(" -> "LPar"
      [] ch = ")" -> "RPar"
      [] ch = "%" -> "Mod"
      [] ch = "|" -> "Or"
      [] ch = "^" -> "Xor"
      [] ch = "&" -> "And"
      [] OTHER -> "Invalid"

RECURSIVE tokenise(_, _)
\* Tokeniser::tokenise: the token returned and the Tokeniser's fields after
tokenise(buf, st) ==
    LET r == BufNext(buf, st.offset) IN
    IF ~r.some THEN [tok |-> Plain("End", st.column, st.line), st |-> st]
    ELSE
      LET s1 == [st EXCEPT !.offset = r.offset] IN
      IF r.ch \in Lower \cup Upper
      THEN LET s2 == BufRewind(s1) IN
           IF s2.panic THEN [tok |-> Plain("End", st.column, st.line), st |-> s2]
           ELSE LET g == get_ident(buf, s2) IN
                [tok |-> g.tok, st |-> [g.st EXCEPT !.column = @ + 1]]
      ELSE IF r.ch \in Digits
      THEN LET s2 == BufRewind(s1) IN
           IF s2.panic THEN [tok |-> Plain("End", st.column, st.line), st |-> s2]
           ELSE LET g == get_num(buf, s2) IN
                [tok |-> g.tok, st |-> [g.st EXCEPT !.column = @ + 1]]
      ELSE IF r.ch \in {" ", "\t", "\r"}
      THEN tokenise(buf, [s1 EXCEPT !.column = @ + 1])
      ELSE IF r.ch = "\n"
      THEN tokenise(buf, [s1 EXCEPT !.column = 1, !.line = @ + 1])
      ELSE [tok |-> Token(SingleKind(r.ch), 0, <<>>,
                          IF SingleKind(r.ch) = "Invalid" THEN r.ch ELSE "",
                          st.column, st.line),
            st |-> [s1 EXCEPT !.column = @ + 1]]

(***************************************************************************)
(* sema.rs.  Both passes return a bool and print a diagnostic; the result  *)
(* record holds the bool (ok) and what was printed: which message (why),   *)
(* the symbol it names (sym) and the line and column.                      *)
(***************************************************************************)
Res(ok, why, sym, ln, col) ==
    [ok |-> ok, why |-> why, sym |-> sym, line |-> ln, col |-> col]

\* a pass that returned true printed nothing
Accepted == Res(TRUE, "", "", 0, 0)

\* no pass has returned yet
NoRes == Res(FALSE, "none", "", 0, 0)

RECURSIVE ParCount(_, _, _)
\* sema_infix, rule 3: the for loop counting parentheses over e[i..],
\* c the record of lpars, rpars and lastpar
ParCount(e, i, c) ==
    IF i > Len(e) THEN c
    ELSE IF e[i].kind = "LPar"
    THEN ParCount(e, i + 1, [c EXCEPT !.lastpar = e[i], !.lpars = @ + 1])
    ELSE IF e[i].kind = "RPar"
    THEN ParCount(e, i + 1, [c EXCEPT !.lastpar = e[i], !.rpars = @ + 1])
    ELSE ParCount(e, i + 1, c)

\* Token::to_string of an operator
OpString(t) ==
    CASE t.kind = "Add" -> "+" [] t.kind = "Sub" -> "-" [] t.kind = "Mul" -> "*"
      [] t.kind = "Div" -> "/" [] t.kind = "Mod" -> "%" [] t.kind = "And" -> "&"
      [] t.kind = "Xor" -> "^" [] t.kind = "Or" -> "|" [] t.kind = "Assign" -> "="

RECURSIVE AdjScan_lastop(_, _)
\* the while loop of sema_infix breaking on a last operator as it does on a
\* last operand
AdjScan_lastop(e, i) ==
    IF i > Len(e) THEN Accepted
    ELSE
      LET atom == e[i] IN
      IF is_operand(atom)
      THEN IF i + 1 > Len(e) THEN Accepted
           ELSE IF is_operand(e[i + 1]) \/ is_paren(e[i + 1])
           THEN Res(FALSE, "Expected operator after", "", atom.line, atom.col)
           ELSE AdjScan_lastop(e, i + 1)
      ELSE IF is_operator(atom)
      THEN IF i + 1 > Len(e) THEN Accepted
           ELSE IF is_operator(e[i + 1])
           THEN Res(FALSE, "Expected operand after", OpString(atom),
                    atom.line, atom.col)
           ELSE AdjScan_lastop(e, i + 1)
      ELSE AdjScan_lastop(e, i + 1)

RECURSIVE AdjScan(_, _)
\* sema_infix, rules 1 and 2: the while loop, i the 1-based place of atom
\* (idx + 1 of the source)
AdjScan(e, i) ==
    IF i > Len(e) THEN Accepted
    ELSE
      LET atom == e[i] IN
      IF is_operand(atom)
      THEN IF i + 1 > Len(e) THEN Accepted      \* break
           ELSE IF is_operand(e[i + 1]) \/ is_paren(e[i + 1])
           THEN Res(FALSE, "Expected operator after", "", atom.line, atom.col)
           ELSE AdjScan(e, i + 1)
      ELSE IF is_operator(atom)
      THEN IF i + 1 > Len(e)
           THEN Res(FALSE, "Expected operand after", OpString(atom),
                    atom.line, atom.col)
           ELSE IF is_operator(e[i + 1])
           THEN Res(FALSE, "Expected operand after", OpString(atom),
                    atom.line, atom.col)
           ELSE AdjScan(e, i + 1)
      ELSE AdjScan(e, i + 1)

sema_infix(e) ==
    LET c == ParCount(e, 1, [lpars |-> 0, rpars |-> 0,
                             lastpar |-> Plain("End", 0, 0)]) IN
    IF c.lpars # c.rpars
    THEN Res(FALSE, "Extra parenthesis",
             IF c.lpars > c.rpars THEN "(" ELSE ")",
             c.lastpar.line, c.lastpar.col)
    ELSE AdjScan(e, 1)

RECURSIVE RpnRun_excess(_, _, _)
\* the loop of sema_rpn with the final check vstack.len() == 0 only
RpnRun_excess(e, i, vstack) ==
    IF i > Len(e)
    THEN IF Len(vstack) = 0
         THEN Res(FALSE, "vstack has excess elements", "", 0, 0)
         ELSE Accepted
    ELSE
      LET t == e[i] IN
      IF is_operand(t) THEN RpnRun_excess(e, i + 1, Append(vstack, 0))
      ELSE IF t.kind = "LPar" THEN Res(FALSE, "Extra", "(", t.line, t.col)
      ELSE IF t.kind = "RPar" THEN Res(FALSE, "Extra", ")", t.line, t.col)
      ELSE
        IF Len(vstack) = 0
        THEN Res(FALSE, "has no operands but needs 2", OpString(t),
                 t.line, t.col)
        ELSE IF Len(vstack) = 1
        THEN Res(FALSE, "has 1 operand but needs 2", OpString(t),
                 t.line, t.col)
        ELSE RpnRun_excess(e, i + 1, PopTop(vstack))

RECURSIVE RpnRun(_, _, _)
\* sema_rpn: the for loop over e[i..] with the virtual stack vstack
RpnRun(e, i, vstack) ==
    IF i > Len(e)
    THEN IF Len(vstack) # 1
         THEN Res(FALSE, "vstack has excess elements", "", 0, 0)
         ELSE Accepted
    ELSE
      LET t == e[i] IN
      IF is_operand(t) THEN RpnRun(e, i + 1, Append(vstack, 0))
      ELSE IF t.kind = "LPar" THEN Res(FALSE, "Extra", "(", t.line, t.col)
      ELSE IF t.kind = "RPar" THEN Res(FALSE, "Extra", ")", t.line, t.col)
      ELSE
        \* op1 = vstack.pop(); op2 = vstack.pop()
        LET n == Len(vstack)
            after1 == IF n = 0 THEN vstack ELSE SubSeq(vstack, 1, n - 1)
            m == Len(after1)
            after2 == IF m = 0 THEN after1 ELSE SubSeq(after1, 1, m - 1)
        IN IF n = 0
           THEN Res(FALSE, "has no operands but needs 2", OpString(t),
                    t.line, t.col)
           ELSE IF m = 0
           THEN Res(FALSE, "has 1 operand but needs 2", OpString(t),
                    t.line, t.col)
           ELSE RpnRun(e, i + 1, Append(after2, 0))

sema_rpn(e) == RpnRun(e, 1, <<>>)

(***************************************************************************)
(* expr_parser.rs                                                          *)
(***************************************************************************)
RECURSIVE add_operator_le(_, _, _)
\* add_operator with <= for <: equal precedence no longer pops
add_operator_le(ops, output, op) ==
    IF Len(ops) = 0
    THEN [opstack |-> Append(ops, op), output |-> output]
    ELSE
      LET opstack_top == ops[Len(ops)] IN
      IF opstack_top.kind = "LPar"
      THEN [opstack |-> Append(ops, op), output |-> output]
      ELSE IF precedence(opstack_top) <= precedence(op)
      THEN [opstack |-> Append(ops, op), output |-> output]
      ELSE add_operator_le(PopTop(ops), Append(output, opstack_top), op)

RECURSIVE add_operator_noscope(_, _, _)
\* add_operator without the check for '(': the scope marker is popped too
add_operator_noscope(ops, output, op) ==
    IF Len(ops) = 0
    THEN [opstack |-> Append(ops, op), output |-> output]
    ELSE
      LET opstack_top == ops[Len(ops)] IN
      IF opstack_top.kind # "LPar" /\ precedence(opstack_top) < precedence(op)
      THEN [opstack |-> Append(ops, op), output |-> output]
      ELSE add_operator_noscope(PopTop(ops), Append(output, opstack_top), op)

RECURSIVE add_operator(_, _, _)
\* add_operator: opstack and output after the call
add_operator(ops, output, op) ==
    IF Len(ops) = 0
    THEN [opstack |-> Append(ops, op), output |-> output]
    ELSE
      LET opstack_top == ops[Len(ops)] IN
      IF opstack_top.kind = "LPar"
      THEN [opstack |-> Append(ops, op), output |-> output]   \* break
      ELSE IF precedence(opstack_top) < precedence(op)
      THEN [opstack |-> Append(ops, op), output |-> output]   \* return
      ELSE add_operator(PopTop(ops), Append(output, opstack_top), op)

RECURSIVE RParPop_keep(_, _)
\* the RPar arm of to_rpn pushing every popped token, the '(' included
RParPop_keep(ops, output) ==
    IF Len(ops) = 0
    THEN [found |-> FALSE, opstack |-> ops, output |-> output]
    ELSE
      LET op == ops[Len(ops)] IN
      IF op.kind = "LPar"
      THEN [found |-> TRUE, opstack |-> PopTop(ops),
            output |-> Append(output, op)]
      ELSE RParPop_keep(PopTop(ops), Append(output, op))

RECURSIVE RParPop(_, _)
\* to_rpn, the RPar arm: found is FALSE when opstack ran empty (the panic)
RParPop(ops, output) ==
    IF Len(ops) = 0
    THEN [found |-> FALSE, opstack |-> ops, output |-> output]
    ELSE
      LET op == ops[Len(ops)] IN
      IF op.kind = "LPar"
      THEN [found |-> TRUE, opstack |-> PopTop(ops), output |-> output]
      ELSE RParPop(PopTop(ops), Append(output, op))

\* the body of the for loop of to_rpn with its LPar arm pushing the '(' on
\* ret for opstack
RpnToken_lparout(st, e) ==
    IF is_operand(e)
    THEN [st EXCEPT !.ret = Append(@, e)]
    ELSE IF e.kind = "LPar"
    THEN [st EXCEPT !.ret = Append(@, e)]
    ELSE IF e.kind = "RPar"
    THEN LET r == RParPop(st.opstack, st.ret) IN
         [ret |-> r.output, opstack |-> r.opstack, panic |-> ~r.found]
    ELSE LET r == add_operator(st.opstack, st.ret, e) IN
         [ret |-> r.output, opstack |-> r.opstack, panic |-> FALSE]

\* to_rpn: the body of the for loop on token e; st is ret, opstack and
\* whether the mismatched-parenthesis panic was reached
RpnToken(st, e) ==
    IF is_operand(e)
    THEN [st EXCEPT !.ret = Append(@, e)]
    ELSE IF e.kind = "LPar"
    THEN [st EXCEPT !.opstack = Append(@, e)]
    ELSE IF e.kind = "RPar"
    THEN LET r == RParPop(st.opstack, st.ret) IN
         [ret |-> r.output, opstack |-> r.opstack, panic |-> ~r.found]
    ELSE LET r == add_operator(st.opstack, st.ret, e) IN
         [ret |-> r.output, opstack |-> r.opstack, panic |-> FALSE]

RECURSIVE Drain_short(_, _)
\* the final loop of to_rpn stopping at one remaining operator
Drain_short(ops, output) ==
    IF Len(ops) <= 1 THEN output
    ELSE Drain_short(PopTop(ops), Append(output, ops[Len(ops)]))

RECURSIVE Drain(_, _)
\* to_rpn: the final while loop
Drain(ops, output) ==
    IF Len(ops) = 0 THEN output
    ELSE Drain(PopTop(ops), Append(output, ops[Len(ops)]))

RECURSIVE RpnLoop(_, _, _)
\* to_rpn: the for loop from token i on, stopping at the panic
RpnLoop(e, i, st) ==
    IF st.panic \/ i > Len(e) THEN st
    ELSE RpnLoop(e, i + 1, RpnToken(st, e[i]))

\* to_rpn: the vector returned (ret), or panic
to_rpn(e) ==
    LET st == RpnLoop(e, 1, [ret |-> <<>>, opstack |-> <<>>, panic |-> FALSE]) IN
    IF st.panic THEN [panic |-> TRUE, ret |-> <<>>]
    ELSE [panic |-> FALSE, ret |-> Drain(st.opstack, st.ret)]

(***************************************************************************)
(* Input texts: every text of at most MaxText bytes over TextBytes, and    *)
(* the texts the specification names.                                      *)
(***************************************************************************)
TextBytes == {"1", "2", "a", "+", "(", ")", " ", "\n", "@"}

RECURSIVE SeqsUpTo(_, _)
\* the sequences over S of length at most n
SeqsUpTo(S, n) ==
    IF n = 0 THEN {<<>>}
    ELSE LET shorter == SeqsUpTo(S, n - 1) IN
         shorter \cup {Append(s, x) : s \in {t \in shorter : Len(t) = n - 1},
                                       x \in S}

NamedTexts ==
    { <<"1", "2">>,
      <<"1", "2", " ", "+", " ", "3">>,
      <<"1", " ", "@", " ", "2">>,
      <<"x", "1", "\t", "\r", "\n", " ", "4", "2", "Z", "*", "(", "7", ")">>,
      <<"=", "+", "-", "*", "/", "(", ")", "%", "|", "^", "&">>,
      <<"9", " ", "#", "\n", "$">> }

Texts == SeqsUpTo(TextBytes, MaxText) \cup NamedTexts

(***************************************************************************)
(* tokeniser.rs: Tokeniser::new and Tokeniser::collect.  Each step of the  *)
(* collect loop is one call of tokenise() and the match on its token.      *)
(***************************************************************************)
\* the variables of the reducer and of main, idle
RedIdle ==
    /\ expr = <<>> /\ pc = "idle" /\ infixRes = NoRes /\ directRes = NoRes
    /\ idx = 0 /\ ret = <<>> /\ opstack = <<>> /\ rpnRes = NoRes
    /\ stages = <<>> /\ ir = <<>>

\* the variables of the tokeniser after Tokeniser::new(text)
TokNew(text) ==
    /\ contents = text /\ offset = 0 /\ line = 1 /\ column = 1
    /\ rewound0 = FALSE /\ exprs = <<>> /\ tpc = "collect" /\ diag = <<>>
    /\ produced = <<>> /\ callStart = 0

InitTok == (\E text \in Texts : TokNew(text)) /\ RedIdle

\* one iteration of the loop of collect
CollectStep ==
    /\ tpc = "collect"
    /\ LET r == tokenise(contents, [offset |-> offset, line |-> line,
                                    column |-> column, panic |-> FALSE])
           t == r.tok
       IN /\ offset' = r.st.offset
          /\ line' = r.st.line
          /\ column' = r.st.column
          /\ rewound0' = r.st.panic
          /\ callStart' = offset
          /\ IF r.st.panic
             THEN /\ tpc' = "panic"
                  /\ UNCHANGED <<exprs, diag, produced>>
             ELSE /\ produced' = Append(produced, t)
                  /\ IF t.kind = "Invalid"
                     THEN /\ diag' = <<[byte |-> t.byte, line |-> t.line,
                                        col |-> t.col]>>
                          /\ exprs' = <<>>
                          /\ tpc' = "Err"
                     ELSE IF t.kind = "End"
                     THEN /\ tpc' = "Ok"
                          /\ UNCHANGED <<exprs, diag>>
                     ELSE /\ exprs' = Append(exprs, t)
                          /\ UNCHANGED <<tpc, diag>>
    /\ UNCHANGED <<contents, expr, pc, infixRes, directRes, idx, ret, opstack,
                   rpnRes, stages, ir>>

NextTok == CollectStep

SpecTok == InitTok /\ [][NextTok]_vars

(***************************************************************************)
(* The token sequences the passes and the reducer are applied to.  The     *)
(* i-th token of a sequence sits at line 1, column i, as collect() returns *)
(* it for a text of one-byte tokens; a Num carries i, an Ident the name x. *)
(***************************************************************************)
Operators == {"Add", "Sub", "Mul", "Div", "And", "Mod", "Xor", "Or", "Assign"}

Operands == {"Num", "Ident"}

AllKinds == Operators \cup Operands \cup {"LPar", "RPar"}

CoreKinds == {"Num", "Add", "Mul", "LPar", "RPar"}

TokAt(kind, i) ==
    Token(kind, IF kind = "Num" THEN i ELSE 0,
          IF kind = "Ident" THEN <<"x">> ELSE <<>>, "", i, 1)

Toks(kinds) == [i \in 1..Len(kinds) |-> TokAt(kinds[i], i)]

\* a op1 b op2 c
Flat(a, op1, b, op2, c) == <<a, op1, b, op2, c>>

\* ( a op1 b ) op2 c
ParLeft(a, op1, b, op2, c) == <<"LPar", a, op1, b, "RPar", op2, c>>

\* a op2 ( b op1 c )
ParRight(a, op2, b, op1, c) == <<a, op2, "LPar", b, op1, c, "RPar">>

Shapes ==
    UNION { {Flat(a, op1, b, op2, c), ParLeft(a, op1, b, op2, c),
             ParRight(a, op2, b, op1, c)} :
            a \in Operands, b \in Operands, c \in Operands,
            op1 \in Operators, op2 \in Operators }

\* 9 9 +, 6 7 + 8 9, 1 + - 9, ((1 + 2), 1 2 + 3 * (postfix)
NamedKinds ==
    { <<"Num", "Num", "Add">>,
      <<"Num", "Num", "Add", "Num", "Num">>,
      <<"Num", "Add", "Sub", "Num">>,
      <<"LPar", "LPar", "Num", "Add", "Num", "RPar">>,
      <<"Num", "Num", "Add", "Num", "Mul">> }

Inputs ==
    { Toks(k) : k \in SeqsUpTo(AllKinds, MaxLen)
                       \cup SeqsUpTo(CoreKinds, MaxLen + 2)
                       \cup Shapes \cup NamedKinds }

\* the variables of the tokeniser, idle
TokIdle ==
    /\ contents = <<>> /\ offset = 0 /\ line = 1 /\ column = 1
    /\ rewound0 = FALSE /\ exprs = <<>> /\ tpc = "idle" /\ diag = <<>>
    /\ produced = <<>> /\ callStart = 0

(***************************************************************************)
(* The passes and the reducer applied to one token sequence: sema_infix    *)
(* and sema_rpn on the sequence itself, then to_rpn on it, one token of    *)
(* its for loop per step, then sema_rpn on what to_rpn returned.           *)
(***************************************************************************)
Init ==
    /\ TokIdle
    /\ expr \in Inputs
    /\ pc = "sema_infix"
    /\ infixRes = NoRes /\ directRes = NoRes /\ rpnRes = NoRes
    /\ idx = 0 /\ ret = <<>> /\ opstack = <<>>
    /\ stages = <<>> /\ ir = <<>>

SemaInfixCall ==
    /\ pc = "sema_infix"
    /\ infixRes' = sema_infix(expr)
    /\ pc' = "sema_rpn_direct"
    /\ UNCHANGED <<expr, directRes, idx, ret, opstack, rpnRes, stages, ir>>
    /\ UNCHANGED tokVars

SemaRpnDirect ==
    /\ pc = "sema_rpn_direct"
    /\ directRes' = sema_rpn(expr)
    /\ pc' = "to_rpn"
    /\ UNCHANGED <<expr, infixRes, idx, ret, opstack, rpnRes, stages, ir>>
    /\ UNCHANGED tokVars

\* to_rpn: one iteration of the for loop
ToRpnToken ==
    /\ pc = "to_rpn"
    /\ idx < Len(expr)
    /\ LET st == RpnToken([ret |-> ret, opstack |-> opstack, panic |-> FALSE],
                          expr[idx + 1])
       IN /\ ret' = st.ret
          /\ opstack' = st.opstack
          /\ pc' = IF st.panic THEN "mismatched" ELSE "to_rpn"
    /\ idx' = idx + 1
    /\ UNCHANGED <<expr, infixRes, directRes, rpnRes, stages, ir>>
    /\ UNCHANGED tokVars

\* to_rpn: the loop is over, the stack is drained and ret returned
ToRpnReturn ==
    /\ pc = "to_rpn"
    /\ idx = Len(expr)
    /\ ret' = Drain(opstack, ret)
    /\ opstack' = <<>>
    /\ pc' = "sema_rpn"
    /\ UNCHANGED <<expr, infixRes, directRes, idx, rpnRes, stages, ir>>
    /\ UNCHANGED tokVars

SemaRpnCall ==
    /\ pc = "sema_rpn"
    /\ rpnRes' = sema_rpn(ret)
    /\ pc' = "done"
    /\ UNCHANGED <<expr, infixRes, directRes, idx, ret, opstack, stages, ir>>
    /\ UNCHANGED tokVars

Next ==
    \/ SemaInfixCall
    \/ SemaRpnDirect
    \/ ToRpnToken
    \/ ToRpnReturn
    \/ SemaRpnCall

Spec == Init /\ [][Next]_vars

(***************************************************************************)
(* Vocabulary of the properties.                                           *)
(***************************************************************************)
\* the number of tokens of e of the given kind
Count(e, kind) == Cardinality({i \in 1..Len(e) : e[i].kind = kind})

\* the number of tokens among the first k of e that satisfy is_operand
OperandsIn(e, k) == Cardinality({i \in 1..k : is_operand(e[i])})

\* the number of tokens among the first k of e that satisfy is_operator
OperatorsIn(e, k) == Cardinality({i \in 1..k : is_operator(e[i])})

\* sema_infix has returned
InfixReturned == pc # "sema_infix" /\ pc # "idle"

\* to_rpn has returned its vector, now in ret
ToRpnReturned == pc \in {"sema_rpn", "done"}

\* to_rpn is about to process the token expr[idx + 1]
AtToken == pc = "to_rpn" /\ idx < Len(expr)

\* no prefix of e holds more ')' than '('
PrefixBalanced(e) ==
    \A k \in 1..Len(e) :
        Count(SubSeq(e, 1, k), "RPar") <= Count(SubSeq(e, 1, k), "LPar")

\* e is a op1 b op2 c
IsFlat(e) ==
    /\ Len(e) = 5
    /\ is_operand(e[1]) /\ is_operator(e[2]) /\ is_operand(e[3])
    /\ is_operator(e[4]) /\ is_operand(e[5])

\* e is ( a op1 b ) op2 c
IsParLeft(e) ==
    /\ Len(e) = 7
    /\ e[1].kind = "LPar" /\ is_operand(e[2]) /\ is_operator(e[3])
    /\ is_operand(e[4]) /\ e[5].kind = "RPar" /\ is_operator(e[6])
    /\ is_operand(e[7])

\* e is a op2 ( b op1 c )
IsParRight(e) ==
    /\ Len(e) = 7
    /\ is_operand(e[1]) /\ is_operator(e[2]) /\ e[3].kind = "LPar"
    /\ is_operand(e[4]) /\ is_operator(e[5]) /\ is_operand(e[6])
    /\ e[7].kind = "RPar"

\* the kinds of e, in order
KindsOf(e) == [i \in 1..Len(e) |-> e[i].kind]

\* the top k tokens of the stack ops, in pop order
Popped(ops, k) == [j \in 1..k |-> ops[Len(ops) + 1 - j]]

(***************************************************************************)
(* C3                                                                      *)
(***************************************************************************)
\* add_operator may pop and emit t for the incoming operator op
Poppable(t, op) == t.kind # "LPar" /\ ~(precedence(t) < precedence(op))

\* the length of the longest run of poppable tokens on top of ops
PopRun(ops, op) ==
    CHOOSE k \in 0..Len(ops) :
        /\ \A j \in (Len(ops) - k + 1)..Len(ops) : Poppable(ops[j], op)
        /\ k < Len(ops) => ~Poppable(ops[Len(ops) - k], op)

C3_Flat ==
    (ToRpnReturned /\ IsFlat(expr)) =>
        /\ precedence(expr[4]) > precedence(expr[2])
              => ret = <<expr[1], expr[3], expr[5], expr[4], expr[2]>>
        /\ precedence(expr[2]) >= precedence(expr[4])
              => ret = <<expr[1], expr[3], expr[2], expr[5], expr[4]>>
        /\ KindsOf(expr) = <<"Num", "Add", "Num", "Mul", "Num">>
              => KindsOf(ret) = <<"Num", "Num", "Num", "Mul", "Add">>
        /\ KindsOf(expr) = <<"Num", "Sub", "Num", "Sub", "Num">>
              => ret = <<expr[1], expr[3], expr[2], expr[5], expr[4]>>

C3_PopStep ==
    (AtToken /\ is_operator(expr[idx + 1])) =>
        LET op == expr[idx + 1]
            k == PopRun(opstack, op)
        IN /\ opstack' = Append(SubSeq(opstack, 1, Len(opstack) - k), op)
           /\ ret' = ret \o Popped(opstack, k)

\* C3: to_rpn on a op1 b op2 c returns a b c op2 op1 when op2 has the higher
\* precedence and a b op1 c op2 otherwise (1 + 2 * 3 gives 1 2 3 * +,
\* 8 - 3 - 2 gives 8 3 - 2 -), and every call of add_operator pops and emits
\* exactly the longest run of stack tops that are not '(' and whose
\* precedence is not lower than the incoming operator's, then pushes it.
C3_Precedence == []C3_Flat /\ [][C3_PopStep]_vars

C3_Witness ==
    /\ ToRpnReturned /\ IsFlat(expr)
    /\ precedence(expr[4]) > precedence(expr[2])
    /\ ret = <<expr[1], expr[3], expr[5], expr[4], expr[2]>>

(***************************************************************************)
(* C4                                                                      *)
(***************************************************************************)
\* the place of the topmost '(' on the stack ops, 0 when there is none
TopLPar(ops) ==
    IF \E j \in 1..Len(ops) : ops[j].kind = "LPar"
    THEN CHOOSE j \in 1..Len(ops) :
            /\ ops[j].kind = "LPar"
            /\ \A i \in (j + 1)..Len(ops) : ops[i].kind # "LPar"
    ELSE 0

C4_Shapes ==
    /\ (ToRpnReturned /\ IsParLeft(expr))
          => ret = <<expr[2], expr[4], expr[3], expr[7], expr[6]>>
    /\ (ToRpnReturned /\ IsParRight(expr))
          => ret = <<expr[1], expr[4], expr[6], expr[5], expr[2]>>

C4_ScopeStep ==
    (AtToken /\ is_operator(expr[idx + 1]) /\ TopLPar(opstack) > 0) =>
        LET m == TopLPar(opstack) IN
        /\ Len(opstack') > m
        /\ SubSeq(opstack', 1, m) = SubSeq(opstack, 1, m)
        /\ \A j \in (Len(ret) + 1)..Len(ret') :
               \E i \in (m + 1)..Len(opstack) : ret'[j] = opstack[i]

\* C4: to_rpn on ( a op1 b ) op2 c returns a b op1 c op2 and on
\* a op2 ( b op1 c ) returns a b c op1 op2, whatever the precedences; and a
\* call of add_operator leaves the topmost '(' of the stack and everything
\* below it in place, emitting only operators that lay above it.
C4_ParenOverride == []C4_Shapes /\ [][C4_ScopeStep]_vars

C4_Witness ==
    /\ ToRpnReturned /\ IsParRight(expr)
    /\ precedence(expr[2]) > precedence(expr[5])
    /\ ret = <<expr[1], expr[4], expr[6], expr[5], expr[2]>>

(***************************************************************************)
(* C1                                                                      *)
(***************************************************************************)
\* to_rpn completed on expr and sema_rpn accepted what it returned
RoundTrip == pc # "mismatched" /\ (pc = "done" => rpnRes.ok)

\* e is not empty, starts with an operand and holds no parenthesis
PlainInfix(e) ==
    /\ Len(e) > 0
    /\ is_operand(e[1])
    /\ \A i \in 1..Len(e) : ~is_paren(e[i])

\* C1 as stated: whenever sema_infix accepts expr, to_rpn completes on it
\* and sema_rpn accepts the sequence to_rpn returns.
C1_Original == infixRes.ok => RoundTrip

\* C1, amended: whenever sema_infix accepts a sequence that is not empty,
\* starts with an operand and holds no parenthesis, to_rpn completes on it
\* and sema_rpn accepts the sequence to_rpn returns.
C1_RoundTrip == (infixRes.ok /\ PlainInfix(expr)) => RoundTrip

C1_Witness ==
    /\ pc = "done" /\ infixRes.ok /\ PlainInfix(expr) /\ Len(expr) >= 5
    /\ rpnRes.ok

(***************************************************************************)
(* C2                                                                      *)
(***************************************************************************)
\* to_rpn has not met the mismatched-parenthesis failure, and the ')' it is
\* about to process finds a '(' on the stack
NoMismatch ==
    /\ pc # "mismatched"
    /\ (AtToken /\ expr[idx + 1].kind = "RPar")
          => \E j \in 1..Len(opstack) : opstack[j].kind = "LPar"

\* C2 as stated: on a sequence sema_infix accepts, to_rpn never reaches the
\* mismatched-parenthesis failure.
C2_Original == infixRes.ok => NoMismatch

\* C2, amended: on a sequence sema_infix accepts and of which no prefix
\* holds more ')' than '(', to_rpn never reaches the mismatched-parenthesis
\* failure: every ')' it processes finds a '(' on the operator stack.
C2_NoMismatch == (infixRes.ok /\ PrefixBalanced(expr)) => NoMismatch

C2_Witness ==
    /\ ToRpnReturned /\ infixRes.ok /\ PrefixBalanced(expr)
    /\ Count(expr, "RPar") > 0 /\ OperatorsIn(expr, Len(expr)) > 0

(***************************************************************************)
(* C5                                                                      *)
(***************************************************************************)
\* C5 as stated: the sequence to_rpn returns holds no LPar and no RPar.
C5_Original ==
    ToRpnReturned => (Count(ret, "LPar") = 0 /\ Count(ret, "RPar") = 0)

\* C5, amended: the sequence to_rpn returns holds no RPar, and as many LPar
\* as the input holds '(' in excess of ')': none when the input has as many
\* ')' as '('.
C5_NoParens ==
    ToRpnReturned =>
        /\ Count(ret, "RPar") = 0
        /\ Count(ret, "LPar") = Count(expr, "LPar") - Count(expr, "RPar")

C5_Witness ==
    /\ ToRpnReturned /\ Count(expr, "LPar") = 2 /\ Count(expr, "RPar") = 2
    /\ Len(ret) > 0 /\ Count(ret, "LPar") = 0

(***************************************************************************)
(* C8                                                                      *)
(***************************************************************************)
\* the three rules of the infix pass
InfixRules(e) ==
    /\ Count(e, "LPar") = Count(e, "RPar")
    /\ \A i \in 1..Len(e) :
          (is_operand(e[i]) /\ i < Len(e))
             => ~(is_operand(e[i + 1]) \/ is_paren(e[i + 1]))
    /\ \A i \in 1..Len(e) :
          is_operator(e[i]) => (i < Len(e) /\ ~is_operator(e[i + 1]))

\* C8: sema_infix returns true exactly when the sequence has as many LPar as
\* RPar, no operand is followed by an operand or a parenthesis, and every
\* operator is followed by a token that is not an operator; so 9 9 +,
\* 6 7 + 8 9, 1 + - 9 and ((1 + 2) are rejected.
C8_InfixRules ==
    InfixReturned =>
        /\ infixRes.ok <=> InfixRules(expr)
        /\ KindsOf(expr) \in
              { <<"Num", "Num", "Add">>, <<"Num", "Num", "Add", "Num", "Num">>,
                <<"Num", "Add", "Sub", "Num">>,
                <<"LPar", "LPar", "Num", "Add", "Num", "RPar">> }
              => ~infixRes.ok

C8_Witness ==
    /\ InfixReturned /\ infixRes.ok /\ Len(expr) >= 3
    /\ is_operand(expr[Len(expr)]) /\ Count(expr, "LPar") > 0

(***************************************************************************)
(* C9                                                                      *)
(***************************************************************************)
\* the depth of the counter-only stack after the first k tokens of e
Depth(e, k) == OperandsIn(e, k) - OperatorsIn(e, k)

\* token i of e makes the execution fail
Bad(e, i) == is_paren(e[i]) \/ (is_operator(e[i]) /\ Depth(e, i - 1) < 2)

RpnRules(e) ==
    /\ \A i \in 1..Len(e) : ~Bad(e, i)
    /\ Depth(e, Len(e)) = 1

\* what sema_rpn reports on e when it fails
RpnReport(e, r) ==
    IF \E i \in 1..Len(e) : Bad(e, i)
    THEN LET i == CHOOSE j \in 1..Len(e) :
                      Bad(e, j) /\ \A h \in 1..(j - 1) : ~Bad(e, h)
         IN /\ r.line = e[i].line /\ r.col = e[i].col
            /\ e[i].kind = "LPar" => (r.why = "Extra" /\ r.sym = "(")
            /\ e[i].kind = "RPar" => (r.why = "Extra" /\ r.sym = ")")
            /\ (is_operator(e[i]) /\ Depth(e, i - 1) = 0)
                  => r.why = "has no operands but needs 2"
            /\ (is_operator(e[i]) /\ Depth(e, i - 1) = 1)
                  => r.why = "has 1 operand but needs 2"
    ELSE r.why = "vstack has excess elements"

RpnVerdict(e, r) ==
    /\ r.ok <=> RpnRules(e)
    /\ ~r.ok => RpnReport(e, r)
    /\ (Len(e) = 0 \/ (Len(e) >= 2 /\ \A i \in 1..Len(e) : is_operand(e[i])))
          => ~r.ok

\* C9: sema_rpn returns true exactly when the sequence holds no parenthesis,
\* every operator is met at a depth of at least 2 (operands add 1, operators
\* take 1 away), and the final depth is 1; the first operator met at depth 0
\* or 1 is reported as having no operands, resp. 1 operand; the empty
\* sequence and two or more operands without operator fail.
C9_RpnRules ==
    /\ pc \in {"to_rpn", "mismatched", "sema_rpn", "done"}
          => RpnVerdict(expr, directRes)
    /\ pc = "done" => RpnVerdict(ret, rpnRes)

C9_Witness ==
    /\ pc = "to_rpn" /\ directRes.ok /\ Len(expr) = 5
    /\ is_operator(expr[3]) /\ is_operator(expr[5])

(***************************************************************************)
(* C6                                                                      *)
(***************************************************************************)
\* the bytes tokenise() skips
Blank(c) == c \in {" ", "\t", "\r", "\n"}

\* the 1-based place of the first byte after the first from bytes of buf
\* that is not skipped: where the token of a call started at offset from
\* begins
TokStart(buf, from) ==
    CHOOSE i \in (from + 1)..Len(buf) :
        ~Blank(buf[i]) /\ \A j \in (from + 1)..(i - 1) : Blank(buf[j])

\* 1 + the number of newline bytes before byte i of buf
LineOf(buf, i) == 1 + Cardinality({j \in 1..(i - 1) : buf[j] = "\n"})

\* the 1-based index of byte i of buf within its line
ColOf(buf, i) ==
    LET nls == {j \in 1..(i - 1) : buf[j] = "\n"} IN
    IF nls = {} THEN i
    ELSE i - (CHOOSE j \in nls : \A h \in nls : h <= j)

\* the token the last call of tokenise() returned
LastTok == produced[Len(produced)]

\* C6: every token tokenise() returns other than End carries the line
\* 1 + the number of newlines before its first byte, and the column that is
\* the 1-based index of its first byte within its line; "12" is at line 1
\* column 1 and '+' in "12 + 3" is at column 4.
C6_Position ==
    /\ (Len(produced) > 0 /\ LastTok.kind # "End") =>
          LET i == TokStart(contents, callStart) IN
          /\ LastTok.line = LineOf(contents, i)
          /\ LastTok.col = ColOf(contents, i)
    /\ (contents = <<"1", "2">> /\ Len(produced) >= 1)
          => (produced[1].kind = "Num" /\ produced[1].num = 12
              /\ produced[1].line = 1 /\ produced[1].col = 1)
    /\ (contents = <<"1", "2", " ", "+", " ", "3">> /\ Len(produced) >= 2)
          => (produced[2].kind = "Add" /\ produced[2].col = 4)

C6_Witness ==
    /\ Len(produced) >= 2
    /\ LastTok.kind = "Add" /\ LastTok.line = 2 /\ LastTok.col = 3
    /\ produced[Len(produced) - 1].kind = "Num"
    /\ produced[Len(produced) - 1].num = 12

(***************************************************************************)
(* C7                                                                      *)
(***************************************************************************)
\* a byte tokenise() does not turn into Invalid
Recognised(c) ==
    \/ is_alnum(c)
    \/ Blank(c)
    \/ c \in {"=", "+", "-", "*", "/", "(", ")", "%", "|", "^", "&"}

\* the places of the unrecognised bytes of buf
Unrecognised(buf) == {i \in 1..Len(buf) : ~Recognised(buf[i])}

\* the place of the first unrecognised byte of buf
FirstUnrecognised(buf) ==
    CHOOSE i \in Unrecognised(buf) : \A j \in Unrecognised(buf) : i <= j

\* token s lies before token t in the source
Before(s, t) == s.line < t.line \/ (s.line = t.line /\ s.col < t.col)

\* C7: collect() returns Ok only on an input without unrecognised byte, and
\* then exactly the tokens tokenise() produced before End, in source order,
\* none of them End or Invalid; it returns Err only on an input with an
\* unrecognised byte, reporting the first such byte with its line and
\* column and returning no token ('@' at line 1 column 3 for "1 @ 2"); and
\* it never reads past the first unrecognised byte.
C7_Collect ==
    /\ tpc \in {"collect", "Ok", "Err"}
    /\ tpc = "Ok" =>
          /\ Unrecognised(contents) = {}
          /\ Len(produced) = Len(exprs) + 1
          /\ LastTok.kind = "End"
          /\ \A i \in 1..Len(exprs) :
                exprs[i] = produced[i] /\ exprs[i].kind \notin {"End", "Invalid"}
          /\ \A i \in 1..Len(exprs) : \A j \in (i + 1)..Len(exprs) :
                Before(exprs[i], exprs[j])
    /\ tpc = "Err" =>
          /\ Unrecognised(contents) # {}
          /\ LET i == FirstUnrecognised(contents) IN
             diag = <<[byte |-> contents[i], line |-> LineOf(contents, i),
                       col |-> ColOf(contents, i)]>>
          /\ exprs = <<>>
    /\ Unrecognised(contents) # {} => offset <= FirstUnrecognised(contents)
    /\ (contents = <<"1", " ", "@", " ", "2">> /\ tpc = "Err")
          => diag = <<[byte |-> "@", line |-> 1, col |-> 3]>>

C7_Witness ==
    /\ tpc = "Err" /\ Len(produced) = 3
    /\ diag # <<>> /\ diag[1].line = 2 /\ diag[1].col = 2

(***************************************************************************)
(* main.rs.  The file carries its own Token, ROBuffer and Tokeniser (no    *)
(* Ident, and only + - * / ( ) as single-byte tokens) and its own copies   *)
(* of add_operator and to_rpn, the same statements as expr_parser.rs; its  *)
(* precedence orders + - below * / as tokeniser.rs does.                   *)
(***************************************************************************)
\* the single-byte arms of the match in main.rs's tokenise
MainSingleKind(ch) ==
    CASE ch = "+" -> "Add"
      [] ch = "-" -> "Sub"
      [] ch = "*" -> "Mul"
      [] ch = "/" -> "Div"
      [] ch = "(" -> "LPar"
      [] ch = ")" -> "RPar"
      [] OTHER -> "Invalid"

RECURSIVE main_tokenise(_, _)
\* main.rs, Tokeniser::tokenise
main_tokenise(buf, st) ==
    LET r == BufNext(buf, st.offset) IN
    IF ~r.some THEN [tok |-> Plain("End", st.column, st.line), st |-> st]
    ELSE
      LET s1 == [st EXCEPT !.offset = r.offset] IN
      IF r.ch \in Digits
      THEN LET g == get_num(buf, BufRewind(s1)) IN
           [tok |-> g.tok, st |-> [g.st EXCEPT !.column = @ + 1]]
      ELSE IF r.ch \in {" ", "\t", "\r"}
      THEN main_tokenise(buf, [s1 EXCEPT !.column = @ + 1])
      ELSE IF r.ch = "\n"
      THEN main_tokenise(buf, [s1 EXCEPT !.column = 1, !.line = @ + 1])
      ELSE [tok |-> Token(MainSingleKind(r.ch), 0, <<>>,
                          IF MainSingleKind(r.ch) = "Invalid" THEN r.ch ELSE "",
                          st.column, st.line),
            st |-> [s1 EXCEPT !.column = @ + 1]]

RECURSIVE MainCollectLoop(_, _, _)
\* main.rs, Tokeniser::collect: Ok(exprs), or Err(()) after the report
MainCollectLoop(buf, st, toks) ==
    LET r == main_tokenise(buf, st) IN
    IF r.tok.kind = "Invalid"
    THEN [ok |-> FALSE, tokens |-> <<>>,
          diag |-> <<[byte |-> r.tok.byte, line |-> r.tok.line,
                      col |-> r.tok.col]>>]
    ELSE IF r.tok.kind = "End"
    THEN [ok |-> TRUE, tokens |-> toks, diag |-> <<>>]
    ELSE MainCollectLoop(buf, r.st, Append(toks, r.tok))

main_collect(buf) ==
    MainCollectLoop(buf, [offset |-> 0, line |-> 1, column |-> 1,
                          panic |-> FALSE], <<>>)

\* main.rs, Token::to_string
Mnemonic(t) ==
    CASE t.kind = "Add" -> "add" [] t.kind = "Sub" -> "sub"
      [] t.kind = "Mul" -> "mul" [] t.kind = "Div" -> "div"

RECURSIVE CodeDumpLoop(_, _, _, _, _)
\* code_dump: the for loop over e[i..]; id the next identifier, stack the
\* identifiers pushed, out the lines written.  The unwrap of an empty pop
\* and to_string of a parenthesis are the panic.
CodeDumpLoop(e, i, id, stack, out) ==
    IF i > Len(e) THEN [panic |-> FALSE, lines |-> out]
    ELSE IF e[i].kind = "Num"
    THEN CodeDumpLoop(e, i + 1, id + 1, Append(stack, id),
                      Append(out, [id |-> id, op |-> "load", a |-> e[i].num,
                                   b |-> 0]))
    ELSE IF Len(stack) < 2 \/ is_paren(e[i])
    THEN [panic |-> TRUE, lines |-> out]
    ELSE LET e1 == stack[Len(stack)]
             e2 == stack[Len(stack) - 1]
         IN CodeDumpLoop(e, i + 1, id + 1,
                         Append(PopTop(PopTop(stack)), id),
                         Append(out, [id |-> id, op |-> Mnemonic(e[i]),
                                      a |-> e2, b |-> e1]))

code_dump(e) == CodeDumpLoop(e, 1, 0, <<>>, <<>>)

\* the variables of the passes and the reducer at the start of main
MainIdle ==
    /\ expr = <<>> /\ infixRes = NoRes /\ directRes = NoRes
    /\ idx = 0 /\ ret = <<>> /\ opstack = <<>> /\ rpnRes = NoRes
    /\ stages = <<>> /\ ir = <<>>

InitMain ==
    /\ \E text \in Texts : TokNew(text)
    /\ MainIdle
    /\ pc = "main"

\* main: Tokeniser::new(expr), tokeniser.collect() and parsed.unwrap()
MainCollect ==
    /\ pc = "main"
    /\ LET parsed == main_collect(contents) IN
       /\ diag' = parsed.diag
       /\ expr' = parsed.tokens
       /\ tpc' = IF parsed.ok THEN "Ok" ELSE "Err"
       /\ pc' = IF parsed.ok THEN "to_rpn" ELSE "panic"
    /\ stages' = Append(stages, "collect")
    /\ UNCHANGED <<contents, offset, line, column, rewound0, exprs, produced,
                   callStart, infixRes, directRes, idx, ret, opstack, rpnRes,
                   ir>>

\* main: to_rpn(parsed.unwrap())
MainToRpn ==
    /\ pc = "to_rpn"
    /\ LET r == to_rpn(expr) IN
       /\ ret' = r.ret
       /\ pc' = IF r.panic THEN "panic" ELSE "code_dump"
    /\ stages' = Append(stages, "to_rpn")
    /\ UNCHANGED <<expr, infixRes, directRes, idx, opstack, rpnRes, ir>>
    /\ UNCHANGED tokVars

\* main: code_dump(rpn).unwrap()
MainCodeDump ==
    /\ pc = "code_dump"
    /\ LET r == code_dump(ret) IN
       /\ ir' = r.lines
       /\ pc' = IF r.panic THEN "panic" ELSE "exit"
    /\ stages' = Append(stages, "code_dump")
    /\ UNCHANGED <<expr, infixRes, directRes, idx, ret, opstack, rpnRes>>
    /\ UNCHANGED tokVars

NextMain == MainCollect \/ MainToRpn \/ MainCodeDump

SpecMain == InitMain /\ [][NextMain]_vars

(***************************************************************************)
(* C10                                                                     *)
(***************************************************************************)
\* stage s is among the stages main has run
Ran(s) == \E i \in 1..Len(stages) : stages[i] = s

\* C10: main runs tokenize, infix validation, reduction, postfix validation
\* in that order and stops at the first failure: it starts to_rpn only on a
\* token sequence that sema_infix accepts, and hands to code_dump only a
\* postfix sequence that sema_rpn accepts.
C10_Staged ==
    /\ Ran("to_rpn") => sema_infix(expr).ok
    /\ Ran("code_dump") => sema_rpn(ret).ok

(***************************************************************************)
(* C11                                                                     *)
(***************************************************************************)
\* the last token of e of the given kind
LastOfKind(e, kind) ==
    e[CHOOSE i \in 1..Len(e) :
          /\ e[i].kind = kind
          /\ \A j \in (i + 1)..Len(e) : e[j].kind # kind]

\* C11: when the sequence holds different numbers of LPar and RPar,
\* sema_infix fails and its diagnostic names the symbol in excess ('(' when
\* there are more LPar, ')' otherwise) with the line and column of the last
\* parenthesis of that kind in the sequence.
C11_ExcessParen ==
    (InfixReturned /\ Count(expr, "LPar") # Count(expr, "RPar")) =>
        LET more == Count(expr, "LPar") > Count(expr, "RPar")
            last == LastOfKind(expr, IF more THEN "LPar" ELSE "RPar")
        IN /\ ~infixRes.ok
           /\ infixRes.why = "Extra parenthesis"
           /\ infixRes.sym = (IF more THEN "(" ELSE ")")
           /\ infixRes.line = last.line
           /\ infixRes.col = last.col

(***************************************************************************)
(* tokeniser.rs: tokenise() called directly, any number of times, on a     *)
(* Tokeniser made by Tokeniser::new; it may be called again after it       *)
(* returned End.                                                           *)
(***************************************************************************)
\* how many times tokenise() is called again after it returned End
MaxAfterEnd == 2

InitCalls ==
    /\ \E text \in Texts :
          /\ contents = text /\ offset = 0 /\ line = 1 /\ column = 1
          /\ rewound0 = FALSE /\ exprs = <<>> /\ tpc = "calls" /\ diag = <<>>
          /\ produced = <<>> /\ callStart = 0
    /\ RedIdle

\* one call of tokenise()
TokeniseCall ==
    /\ tpc = "calls"
    /\ Cardinality({i \in 1..Len(produced) : produced[i].kind = "End"})
          <= MaxAfterEnd
    /\ LET r == tokenise(contents, [offset |-> offset, line |-> line,
                                    column |-> column, panic |-> FALSE])
       IN /\ offset' = r.st.offset
          /\ line' = r.st.line
          /\ column' = r.st.column
          /\ rewound0' = r.st.panic
          /\ callStart' = offset
          /\ IF r.st.panic
             THEN tpc' = "panic" /\ UNCHANGED produced
             ELSE produced' = Append(produced, r.tok) /\ UNCHANGED tpc
    /\ UNCHANGED <<contents, exprs, diag, expr, pc, infixRes, directRes, idx,
                   ret, opstack, rpnRes, stages, ir>>

NextCalls == TokeniseCall

SpecCalls == InitCalls /\ [][NextCalls]_vars

(***************************************************************************)
(* C12                                                                     *)
(***************************************************************************)
\* the line of the position just past the first k bytes of buf
LinePast(buf, k) == 1 + Cardinality({j \in 1..k : buf[j] = "\n"})

\* the column of the position just past the first k bytes of buf
ColPast(buf, k) ==
    LET nls == {j \in 1..k : buf[j] = "\n"} IN
    IF nls = {} THEN k + 1
    ELSE k + 1 - (CHOOSE j \in nls : \A h \in nls : h <= j)

\* C12: at every return from tokenise(), line is 1 + the number of newlines
\* consumed and column is 1 + the number of bytes consumed since the last
\* newline (or the start); so an End token carries the position just past
\* the last input byte, and column never falls below 1.
C12_Bookkeeping ==
    Len(produced) > 0 =>
        /\ line = LinePast(contents, offset)
        /\ column = ColPast(contents, offset)
        /\ column >= 1
        /\ LastTok.kind = "End" =>
              /\ LastTok.line = LinePast(contents, Len(contents))
              /\ LastTok.col = ColPast(contents, Len(contents))

(***************************************************************************)
(* C13                                                                     *)
(***************************************************************************)
\* C13: the offset of the buffer stays within 0..length, rewind() is never
\* called at offset 0, every call of tokenise() that returns a token other
\* than End leaves the offset greater than it found it, and every call
\* after the first length calls returns End, so that collect() makes at
\* most length + 1 calls.
C13_Cursor ==
    /\ offset \in 0..Len(contents)
    /\ ~rewound0 /\ tpc # "panic"
    /\ (Len(produced) > 0 /\ LastTok.kind # "End") => offset > callStart
    /\ Len(produced) > 0 => offset >= callStart
    /\ \A i \in 1..Len(produced) :
          i > Len(contents) => produced[i].kind = "End"

C13_Witness ==
    /\ Len(produced) = 2
    /\ LastTok.kind = "Num" /\ LastTok.num = 12
    /\ callStart = 1 /\ offset = 3 /\ Len(contents) = 4

====
